---- MODULE Spec2Model ----
(***************************************************************************)
(* State-machine model of the GEDF non-preemptive scheduler of the         *)
(* threaded Lingua Franca C runtime (core/threaded/scheduler_GEDF_NP.c).   *)
(*                                                                         *)
(* Every worker thread is a process with a program counter pc[w]; one      *)
(* action models one atomic step of the code (an atomic instruction, a     *)
(* critical section, or one priority-queue call).  The priority queue,     *)
(* the counting semaphore, LEVEL() and _lf_next_locked() are not part of   *)
(* scheduler_GEDF_NP.c; they follow their contracts.  A priority-queue     *)
(* insert has an entry step and a completion step, so that a thread being  *)
(* inside an unserialized queue operation is a visible state.              *)
(***************************************************************************)
EXTENDS Integers, Sequences, FiniteSets

\* ------------------------------------------------------------------ bounds
\* Number of worker threads handed to lf_sched_init.
number_of_workers == 2

\* The tag at which execution stops (tags are counted from 0).
stop_tag == 2

\* Highest reaction level; the reaction queue array has MAX_REACTION_LEVEL+1 slots.
MAX_REACTION_LEVEL == 1

\* ------------------------------------------------------- reactions and keys
\* Number of index values per level: index = level * LevelBase + precedence.
LevelBase == 4

\* LEVEL(index): the level encoded in a reaction index.
LEVEL(index) == index \div LevelBase

\* The reactions of the program, identified by their index.
Reactions == {0, 1, LevelBase, LevelBase + 1}

\* The null reaction pointer.
NULL == -1

\* No thread (owner of an unlocked mutex).
NoThread == 0

Workers == 1..number_of_workers

Levels == 0..MAX_REACTION_LEVEL

\* SIZE_MAX, the value of (size_t)0 - 1; larger than every level.
SIZE_MAX == 2147483647

\* x - 1 in size_t arithmetic.
DecSizeT(x) == IF x = 0 THEN SIZE_MAX ELSE x - 1

\* a - b in size_t arithmetic.
SubSizeT(a, b) == IF a >= b THEN a - b ELSE (SIZE_MAX - (b - a)) + 1

MIN(a, b) == IF a < b THEN a ELSE b

VARIABLES
  federated,              \* build option FEDERATED
  status,                 \* reaction->status of every reaction
  vector_of_reaction_qs,  \* one priority queue per level (ascending sequences)
  executing_q,            \* the slot of vector_of_reaction_qs executing_q points to
  next_level,             \* _lf_sched_next_reaction_level
  n_idle,                 \* _lf_sched_number_of_idle_workers
  sem,                    \* count of _lf_sched_semaphore
  should_stop,            \* _lf_sched_should_stop
  tag_completed,          \* _lf_logical_tag_completed
  q_mutex,                \* owner of _lf_sched_executing_q_mutex
  mutex,                  \* owner of the global mutex
  current_tag,            \* current_tag
  pc,                     \* position of every worker
  held,                   \* reaction a worker got from get_ready_reaction
  trig,                   \* reaction a worker's trigger call is inserting
  to_awake,               \* workers_to_be_awaken of _lf_sched_notify_workers
  idle_read,              \* value of the idle counter loaded by notify_workers
  aborted,                \* error_print_and_exit was called
  misused,                \* a worker calls done_with_reaction twice for a reaction
  trig_tag,               \* history: tag at which a pending trigger won its CAS
  disp_in_tag,            \* history: reactions dispatched in the current tag
  last_pop,               \* history: last reaction popped from the executing queue
  ins_since,              \* history: an insert into the executing queue since last_pop
  adv_invoked,            \* history: _lf_sched_advance_tag_locked was called before
  ltc_last,               \* history: tag of the last logical_tag_complete call
  trig_same,              \* history: pending reactions triggered from their own level
  freed                   \* what lf_sched_free has released

vars == <<federated, status, vector_of_reaction_qs, executing_q, next_level,
          n_idle, sem, should_stop, tag_completed, q_mutex, mutex, current_tag,
          pc, held, trig, to_awake, idle_read, aborted, misused,
          trig_tag, disp_in_tag, last_pop, ins_since,
          adv_invoked, ltc_last, trig_same, freed>>

\* ------------------------------------------------------ external functions
\* lf_semaphore_release: the count after n permits are added.
lf_semaphore_release(count, n) == count + n

\* lf_semaphore_acquire: the count after one permit is taken (blocks at 0).
lf_semaphore_acquire(count) == count - 1

\* _lf_next_locked: the tag after the advance.
lf_next_locked_tag(tag) == tag + 1

\* Variant: the critical section is not left.
lf_mutex_unlock_Held(owner, w) == owner

\* lf_mutex_unlock called by the owner w: the owner of the mutex afterwards.
lf_mutex_unlock(owner, w) == NoThread

\* The allocation record before lf_sched_free: per queue of the reaction
\* queue array the number of pqueue_free calls, and whether the semaphore
\* and the executing queue mutex were destroyed.
NotFreed == [done |-> FALSE,
             queues |-> [l \in Levels |-> 0],
             semaphore |-> FALSE,
             executing_q_mutex |-> FALSE]

\* --------------------------------------------------------- priority queue
\* Variant: the queues are created with the forward comparison.
Precedes_Forward(a, b) == a >= b

\* lf_sched_init: the queues are created with in_reverse_order on
\* get_reaction_index, so a reaction with index a is popped no later than one
\* with index b when a <= b.
Precedes(a, b) == a <= b

\* pqueue_insert: keep the queue in the order of Precedes (head popped first).
RECURSIVE pqueue_insert(_, _)
pqueue_insert(q, r) ==
  IF q = <<>> THEN <<r>>
  ELSE IF ~Precedes(Head(q), r) THEN <<r>> \o q
  ELSE <<Head(q)>> \o pqueue_insert(Tail(q), r)

\* pqueue_size
pqueue_size(q) == Len(q)

\* pqueue_pop: the element returned (NULL on an empty queue).
pqueue_peek(q) == IF q = <<>> THEN NULL ELSE Head(q)

\* pqueue_pop: the queue that remains.
pqueue_rest(q) == IF q = <<>> THEN <<>> ELSE Tail(q)

\* Number of occurrences of r in queue q.
Occurrences(q, r) == Cardinality({i \in 1..Len(q) : q[i] = r})

\* Number of occurrences of r in the whole reaction queue array.
InQueues(r) ==
  LET RECURSIVE Sum(_)
      Sum(l) == IF l > MAX_REACTION_LEVEL THEN 0
                ELSE Occurrences(vector_of_reaction_qs[l], r) + Sum(l + 1)
  IN Sum(0)

\* ------------------------------------------------------------- trigger path
\* Variant: the swap also succeeds on a reaction that is already queued.
TriggerWins_AnyStatus(st, r) == r # NULL /\ st[r] \in {"inactive", "queued"}

\* Variant: the status is set to queued without comparing it.
TriggerWins_NoCompare(st, r) == r # NULL

\* lf_sched_trigger_reaction: the compare-and-swap inactive -> queued succeeds.
TriggerWins(st, r) == r # NULL /\ st[r] = "inactive"

\* _lf_sched_insert_reaction: the insert takes the executing queue mutex.
NeedsLock(fed, reaction_level, nl) == fed /\ reaction_level = DecSizeT(nl)

\* lf_sched_trigger_reaction called for every reaction of S by one thread
\* while no other thread runs (start-up, _lf_next_locked).
RECURSIVE TriggerAll(_, _, _)
TriggerAll(S, st, qs) ==
  IF S = {} THEN <<st, qs>>
  ELSE LET r == CHOOSE x \in S : \A y \in S : x <= y
       IN IF TriggerWins(st, r)
          THEN TriggerAll(S \ {r}, [st EXCEPT ![r] = "queued"],
                          [qs EXCEPT ![LEVEL(r)] = pqueue_insert(@, r)])
          ELSE TriggerAll(S \ {r}, st, qs)

\* ------------------------------------------------------------------- Init
\* The tag at which execution starts: before the stop tag, or (timeout 0) at
\* the stop tag itself.
StartTags == {0, stop_tag}

\* lf_sched_init, followed by the triggering of the start-up reactions S
\* before the workers run.
Init ==
  /\ federated \in BOOLEAN
  /\ current_tag \in StartTags
  /\ \E S \in SUBSET Reactions :
       LET t == TriggerAll(S, [r \in Reactions |-> "inactive"],
                           [l \in Levels |-> <<>>])
       IN /\ status = t[1]
          /\ vector_of_reaction_qs = t[2]
          /\ trig_tag = [r \in Reactions |-> IF r \in S THEN current_tag ELSE NULL]
  /\ executing_q = 0
  /\ next_level = 0
  /\ n_idle = 0
  /\ sem = 0
  /\ should_stop = FALSE
  /\ tag_completed = FALSE
  /\ q_mutex = NoThread
  /\ mutex = NoThread
  /\ pc = [w \in Workers |-> "get"]
  /\ held = [w \in Workers |-> NULL]
  /\ trig = [w \in Workers |-> NULL]
  /\ to_awake = 0
  /\ idle_read = 0
  /\ aborted = FALSE
  /\ misused = FALSE
  /\ disp_in_tag = {}
  /\ last_pop = NULL
  /\ ins_since = FALSE
  /\ adv_invoked = FALSE
  /\ ltc_last = NULL
  /\ trig_same = {}
  /\ freed = NotFreed


\* --------------------------------------------------------- worker: get/done
\* lf_sched_get_ready_reaction: the loop test while (!_lf_sched_should_stop).
GetReady(w) ==
  /\ ~aborted
  /\ pc[w] = "get"
  /\ pc' = [pc EXCEPT ![w] = IF should_stop THEN "stopped" ELSE "lock"]
  /\ UNCHANGED <<adv_invoked, ltc_last, trig_same, freed, federated, status,
                 vector_of_reaction_qs, executing_q, next_level, n_idle, sem,
                 should_stop, tag_completed, q_mutex, mutex, current_tag,
                 held, trig, to_awake, idle_read, aborted, misused, trig_tag,
                 disp_in_tag, last_pop, ins_since>>

\* lf_sched_get_ready_reaction: lf_mutex_lock(&_lf_sched_executing_q_mutex).
LockQ(w) ==
  /\ ~aborted
  /\ pc[w] = "lock"
  /\ q_mutex = NoThread
  /\ q_mutex' = w
  /\ pc' = [pc EXCEPT ![w] = "pop"]
  /\ UNCHANGED <<adv_invoked, ltc_last, trig_same, freed, federated, status,
                 vector_of_reaction_qs, executing_q, next_level, n_idle, sem,
                 should_stop, tag_completed, mutex, current_tag, held, trig,
                 to_awake, idle_read, aborted, misused, trig_tag, disp_in_tag,
                 last_pop, ins_since>>

\* lf_sched_get_ready_reaction: pqueue_pop(executing_q), unlock, and the test
\* of the popped pointer: return it, or go to _lf_sched_wait_for_work.
Pop(w) ==
  /\ ~aborted
  /\ pc[w] = "pop"
  /\ LET r == pqueue_peek(vector_of_reaction_qs[executing_q])
     IN /\ vector_of_reaction_qs' =
             [vector_of_reaction_qs EXCEPT ![executing_q] = pqueue_rest(@)]
        /\ q_mutex' = lf_mutex_unlock(q_mutex, w)
        /\ IF r # NULL
           THEN /\ held' = [held EXCEPT ![w] = r]
                /\ pc' = [pc EXCEPT ![w] = "run"]
                /\ trig_tag' = [trig_tag EXCEPT ![r] = NULL]
                /\ disp_in_tag' = disp_in_tag \cup {r}
                /\ last_pop' = r
                /\ ins_since' = FALSE
                /\ trig_same' = trig_same \ {r}
           ELSE /\ pc' = [pc EXCEPT ![w] = "wait"]
                /\ UNCHANGED <<held, trig_tag, disp_in_tag, last_pop,
                               ins_since, trig_same>>
  /\ UNCHANGED <<adv_invoked, ltc_last, freed, federated, status, executing_q,
                 next_level, n_idle, sem, should_stop, tag_completed, mutex,
                 current_tag, trig, to_awake, idle_read, aborted, misused>>

\* Variant: the status is never set back to inactive.
DoneStatus_Keep(st, r) == st

\* lf_sched_done_with_reaction: the status after the call.
DoneStatus(st, r) == IF st[r] = "queued" THEN [st EXCEPT ![r] = "inactive"] ELSE st

\* Variant: the result of the compare-and-swap is ignored.
DoneAborts_Never(st, r) == FALSE

\* lf_sched_done_with_reaction: the compare-and-swap failed, error_print_and_exit.
DoneAborts(st, r) == st[r] # "queued"

\* lf_sched_done_with_reaction(w, held[w]) by the worker that executed it.
Done(w) ==
  /\ ~aborted
  /\ pc[w] = "run"
  /\ status' = DoneStatus(status, held[w])
  /\ aborted' = DoneAborts(status, held[w])
  /\ held' = [held EXCEPT ![w] = NULL]
  /\ pc' = [pc EXCEPT ![w] = "get"]
  /\ UNCHANGED <<adv_invoked, ltc_last, trig_same, freed, federated,
                 vector_of_reaction_qs, executing_q, next_level, n_idle, sem,
                 should_stop, tag_completed, q_mutex, mutex, current_tag,
                 trig, to_awake, idle_read, misused, trig_tag, disp_in_tag,
                 last_pop, ins_since>>

\* lf_sched_done_with_reaction(w, held[w]) called by a worker that goes on
\* executing the reaction and will report it again with Done (a caller that
\* breaks the pairing of get and done); at most once per run.
DoneExtra(w) ==
  /\ ~aborted
  /\ ~misused
  /\ pc[w] = "run"
  /\ misused' = TRUE
  /\ status' = DoneStatus(status, held[w])
  /\ aborted' = DoneAborts(status, held[w])
  /\ UNCHANGED <<adv_invoked, ltc_last, trig_same, freed, federated,
                 vector_of_reaction_qs, executing_q, next_level, n_idle, sem,
                 should_stop, tag_completed, q_mutex, mutex, current_tag, pc,
                 held, trig, to_awake, idle_read, trig_tag, disp_in_tag,
                 last_pop, ins_since>>

\* ---------------------------------------------------- worker: trigger path
\* lf_sched_trigger_reaction(r, w) called by the reaction that worker w is
\* executing, for a reaction of any level or NULL: the compare-and-swap.  A
\* call with NULL or one that loses the compare-and-swap returns at once and
\* changes nothing.
Trigger(w, r) ==
  /\ ~aborted
  /\ pc[w] = "run"
  /\ TriggerWins(status, r)
  /\ status' = [status EXCEPT ![r] = "queued"]
  /\ trig' = [trig EXCEPT ![w] = r]
  /\ trig_tag' = [trig_tag EXCEPT ![r] = current_tag]
  /\ trig_same' = IF LEVEL(r) = LEVEL(held[w]) THEN trig_same \cup {r}
                                                ELSE trig_same \ {r}
  /\ pc' = [pc EXCEPT ![w] = "ins"]
  /\ UNCHANGED <<adv_invoked, ltc_last, freed, federated,
                 vector_of_reaction_qs, executing_q, next_level, n_idle, sem,
                 should_stop, tag_completed, q_mutex, mutex, current_tag,
                 held, to_awake, idle_read, aborted, misused, disp_in_tag,
                 last_pop, ins_since>>

\* _lf_sched_insert_reaction: take the executing queue mutex when the level
\* test asks for it, and enter pqueue_insert.
InsertEnter(w) ==
  /\ ~aborted
  /\ pc[w] = "ins"
  /\ IF NeedsLock(federated, LEVEL(trig[w]), next_level)
     THEN /\ q_mutex = NoThread
          /\ q_mutex' = w
     ELSE UNCHANGED q_mutex
  /\ pc' = [pc EXCEPT ![w] = "ins2"]
  /\ UNCHANGED <<adv_invoked, ltc_last, trig_same, freed, federated, status,
                 vector_of_reaction_qs, executing_q, next_level, n_idle, sem,
                 should_stop, tag_completed, mutex, current_tag, held, trig,
                 to_awake, idle_read, aborted, misused, trig_tag, disp_in_tag,
                 last_pop, ins_since>>

\* _lf_sched_insert_reaction: pqueue_insert completes; unlock if locked.
InsertCommit(w) ==
  /\ ~aborted
  /\ pc[w] = "ins2"
  /\ vector_of_reaction_qs' =
       [vector_of_reaction_qs EXCEPT ![LEVEL(trig[w])] = pqueue_insert(@, trig[w])]
  /\ q_mutex' = IF q_mutex = w THEN lf_mutex_unlock(q_mutex, w) ELSE q_mutex
  /\ ins_since' = (ins_since \/ LEVEL(trig[w]) = executing_q)
  /\ trig' = [trig EXCEPT ![w] = NULL]
  /\ pc' = [pc EXCEPT ![w] = "run"]
  /\ UNCHANGED <<adv_invoked, ltc_last, trig_same, freed, federated, status,
                 executing_q, next_level, n_idle, sem, should_stop,
                 tag_completed, mutex, current_tag, held, to_awake, idle_read,
                 aborted, misused, trig_tag, disp_in_tag, last_pop>>

\* ------------------------------------------------- idle tracking, advancing
\* Variant: every worker that goes idle is elected.
IsLastIdle_Always(prev) == TRUE

\* Variant: the first worker to go idle is elected.
IsLastIdle_First(prev) == prev = 0

\* Variant: the election test is off by one.
IsLastIdle_OffByOne(prev) == prev = number_of_workers - 2

\* _lf_sched_wait_for_work: the fetch-add returned the count of the last worker.
IsLastIdle(prev) == prev = number_of_workers - 1

\* _lf_sched_wait_for_work: lf_atomic_fetch_add on the idle counter and the
\* election of the last idle worker.
WaitForWork(w) ==
  /\ ~aborted
  /\ pc[w] = "wait"
  /\ n_idle' = n_idle + 1
  /\ pc' = [pc EXCEPT ![w] = IF IsLastIdle(n_idle) THEN "adv" ELSE "acquire"]
  /\ UNCHANGED <<adv_invoked, ltc_last, trig_same, freed, federated, status,
                 vector_of_reaction_qs, executing_q, next_level, sem,
                 should_stop, tag_completed, q_mutex, mutex, current_tag,
                 held, trig, to_awake, idle_read, aborted, misused, trig_tag,
                 disp_in_tag, last_pop, ins_since>>

\* _lf_sched_wait_for_work: lf_semaphore_acquire returns, back to the loop test.
Acquire(w) ==
  /\ ~aborted
  /\ pc[w] = "acquire"
  /\ sem > 0
  /\ sem' = lf_semaphore_acquire(sem)
  /\ pc' = [pc EXCEPT ![w] = "get"]
  /\ UNCHANGED <<adv_invoked, ltc_last, trig_same, freed, federated, status,
                 vector_of_reaction_qs, executing_q, next_level, n_idle,
                 should_stop, tag_completed, q_mutex, mutex, current_tag,
                 held, trig, to_awake, idle_read, aborted, misused, trig_tag,
                 disp_in_tag, last_pop, ins_since>>

\* Variant: the tag is never taken as drained.
TagDrained_Never(nl) == FALSE

\* Variant: the tag is taken as drained one level early.
TagDrained_Early(nl) == nl >= MAX_REACTION_LEVEL

\* _lf_sched_try_advance_tag_and_distribute: the test that every level of the
\* current tag was scanned.
TagDrained(nl) == nl = MAX_REACTION_LEVEL + 1

\* _lf_sched_try_advance_tag_and_distribute: head of the loop, the test of
\* the level counter against MAX_REACTION_LEVEL + 1 and its reset.
TryAdvance(w) ==
  /\ ~aborted
  /\ pc[w] = "adv"
  /\ IF TagDrained(next_level)
     THEN /\ next_level' = 0
          /\ pc' = [pc EXCEPT ![w] = "mlock"]
     ELSE /\ pc' = [pc EXCEPT ![w] = "dist"]
          /\ UNCHANGED next_level
  /\ UNCHANGED <<adv_invoked, ltc_last, trig_same, freed, federated, status,
                 vector_of_reaction_qs, executing_q, n_idle, sem, should_stop,
                 tag_completed, q_mutex, mutex, current_tag, held, trig,
                 to_awake, idle_read, aborted, misused, trig_tag, disp_in_tag,
                 last_pop, ins_since>>

\* _lf_sched_try_advance_tag_and_distribute: lf_mutex_lock(&mutex).
LockMutex(w) ==
  /\ ~aborted
  /\ pc[w] = "mlock"
  /\ mutex = NoThread
  /\ mutex' = w
  /\ pc' = [pc EXCEPT ![w] = "advtag"]
  /\ UNCHANGED <<adv_invoked, ltc_last, trig_same, freed, federated, status,
                 vector_of_reaction_qs, executing_q, next_level, n_idle, sem,
                 should_stop, tag_completed, q_mutex, current_tag, held, trig,
                 to_awake, idle_read, aborted, misused, trig_tag, disp_in_tag,
                 last_pop, ins_since>>

\* Variant: the stop tag is tested on the first invocation too.
ShouldStopLocked_NoFlag(completed, tag) == tag >= stop_tag

\* _lf_sched_should_stop_locked: a tag has completed and the stop tag is reached.
ShouldStopLocked(completed, tag) == completed /\ tag >= stop_tag

\* Variant: one permit too few.
StopPermits_Short == number_of_workers - 2

\* Number of permits _lf_sched_signal_stop releases.
StopPermits == number_of_workers - 1

\* _lf_sched_advance_tag_locked under the global mutex.  At the stop tag:
\* _lf_sched_signal_stop, unlock, leave the loop.  Otherwise _lf_next_locked
\* moves to the next tag and triggers the reactions S of that tag; unlock.
AdvanceTag(w) ==
  /\ ~aborted
  /\ pc[w] = "advtag"
  /\ mutex' = lf_mutex_unlock(mutex, w)
  /\ adv_invoked' = TRUE
  /\ ltc_last' = IF tag_completed THEN current_tag ELSE ltc_last
  /\ IF ShouldStopLocked(tag_completed, current_tag)
     THEN /\ should_stop' = TRUE
          /\ sem' = lf_semaphore_release(sem, StopPermits)
          /\ pc' = [pc EXCEPT ![w] = "get"]
          /\ UNCHANGED <<status, vector_of_reaction_qs, tag_completed,
                         current_tag, trig_tag, disp_in_tag>>
     ELSE /\ tag_completed' = TRUE
          /\ current_tag' = lf_next_locked_tag(current_tag)
          /\ \E S \in SUBSET Reactions :
               LET t == TriggerAll(S, status, vector_of_reaction_qs)
               IN /\ status' = t[1]
                  /\ vector_of_reaction_qs' = t[2]
                  /\ trig_tag' = [r \in Reactions |->
                                    IF r \in S /\ TriggerWins(status, r)
                                    THEN lf_next_locked_tag(current_tag)
                                    ELSE trig_tag[r]]
          /\ disp_in_tag' = {}
          /\ pc' = [pc EXCEPT ![w] = "dist"]
          /\ UNCHANGED <<should_stop, sem>>
  /\ UNCHANGED <<trig_same, freed, federated, executing_q, next_level, n_idle,
                 q_mutex, held, trig, to_awake, idle_read, aborted, misused,
                 last_pop, ins_since>>

\* _lf_sched_distribute_ready_reactions_locked: one iteration of the scan, or
\* its end with no reaction found (back to the head of the advance loop).
Distribute(w) ==
  /\ ~aborted
  /\ pc[w] = "dist"
  /\ IF next_level <= MAX_REACTION_LEVEL
     THEN /\ executing_q' = next_level
          /\ next_level' = next_level + 1
          /\ last_pop' = NULL
          /\ ins_since' = FALSE
          /\ pc' = [pc EXCEPT ![w] =
                      IF pqueue_size(vector_of_reaction_qs[next_level]) > 0
                      THEN "notify" ELSE "dist"]
     ELSE /\ pc' = [pc EXCEPT ![w] = "adv"]
          /\ UNCHANGED <<executing_q, next_level, last_pop, ins_since>>
  /\ UNCHANGED <<adv_invoked, ltc_last, trig_same, freed, federated, status,
                 vector_of_reaction_qs, n_idle, sem, should_stop,
                 tag_completed, q_mutex, mutex, current_tag, held, trig,
                 to_awake, idle_read, aborted, misused, trig_tag,
                 disp_in_tag>>

\* Variant: every idle worker resumes, whatever the size of the queue.
WorkersToBeAwaken_All(idle, k) == idle

\* Variant: the caller is not counted among the workers that resume.
WorkersToBeAwaken_Others(idle, k) == MIN(idle, k) - 1

\* _lf_sched_notify_workers: MIN(idle workers, size of the executing queue).
WorkersToBeAwaken(idle, k) == MIN(idle, k)

\* _lf_sched_notify_workers: compute workers_to_be_awaken and load the idle
\* counter for the subtraction (a plain read-modify-write, not an atomic one).
NotifyLoad(w) ==
  /\ ~aborted
  /\ pc[w] = "notify"
  /\ to_awake' = WorkersToBeAwaken(n_idle,
                    pqueue_size(vector_of_reaction_qs[executing_q]))
  /\ idle_read' = n_idle
  /\ pc' = [pc EXCEPT ![w] = "notify2"]
  /\ UNCHANGED <<adv_invoked, ltc_last, trig_same, freed, federated, status,
                 vector_of_reaction_qs, executing_q, next_level, n_idle, sem,
                 should_stop, tag_completed, q_mutex, mutex, current_tag,
                 held, trig, aborted, misused, trig_tag, disp_in_tag,
                 last_pop, ins_since>>

\* Variant: a permit is released for the caller too.
PermitsToRelease_All(awaken) == awaken

\* _lf_sched_notify_workers: the permits released, one for every worker to
\* be awaken except the caller.
PermitsToRelease(awaken) == IF awaken > 1 THEN awaken - 1 ELSE 0

\* _lf_sched_notify_workers: store the decremented idle counter and release
\* workers_to_be_awaken - 1 permits; the caller returns to the get loop.
NotifyStore(w) ==
  /\ ~aborted
  /\ pc[w] = "notify2"
  /\ n_idle' = SubSizeT(idle_read, to_awake)
  /\ sem' = IF PermitsToRelease(to_awake) > 0
            THEN lf_semaphore_release(sem, PermitsToRelease(to_awake))
            ELSE sem
  /\ to_awake' = 0
  /\ idle_read' = 0
  /\ pc' = [pc EXCEPT ![w] = "get"]
  /\ UNCHANGED <<adv_invoked, ltc_last, trig_same, freed, federated, status,
                 vector_of_reaction_qs, executing_q, next_level, should_stop,
                 tag_completed, q_mutex, mutex, current_tag, held, trig,
                 aborted, misused, trig_tag, disp_in_tag, last_pop,
                 ins_since>>

\* ------------------------------------------------------------------- free
\* lf_sched_free, called once after every worker thread has exited: the
\* loop over the reaction queue array is commented out, so pqueue_free is
\* called for the queue executing_q points to only; the semaphore is
\* destroyed; the executing queue mutex is left as it is.
Free ==
  /\ ~aborted
  /\ ~freed.done
  /\ \A w \in Workers : pc[w] = "stopped"
  /\ freed' = [done |-> TRUE,
               queues |-> [freed.queues EXCEPT ![executing_q] = @ + 1],
               semaphore |-> TRUE,
               executing_q_mutex |-> freed.executing_q_mutex]
  /\ UNCHANGED <<adv_invoked, ltc_last, trig_same, federated, status,
                 vector_of_reaction_qs, executing_q, next_level, n_idle, sem,
                 should_stop, tag_completed, q_mutex, mutex, current_tag, pc,
                 held, trig, to_awake, idle_read, aborted, misused, trig_tag,
                 disp_in_tag, last_pop, ins_since>>

\* ------------------------------------------------------------ specification
Next ==
  \/ \E w \in Workers : GetReady(w)
  \/ \E w \in Workers : LockQ(w)
  \/ \E w \in Workers : Pop(w)
  \/ \E w \in Workers : Done(w)
  \/ \E w \in Workers : \E r \in Reactions \cup {NULL} : Trigger(w, r)
  \/ \E w \in Workers : InsertEnter(w)
  \/ \E w \in Workers : InsertCommit(w)
  \/ \E w \in Workers : WaitForWork(w)
  \/ \E w \in Workers : Acquire(w)
  \/ \E w \in Workers : TryAdvance(w)
  \/ \E w \in Workers : LockMutex(w)
  \/ \E w \in Workers : AdvanceTag(w)
  \/ \E w \in Workers : Distribute(w)
  \/ \E w \in Workers : NotifyLoad(w)
  \/ \E w \in Workers : NotifyStore(w)
  \/ Free

Spec == Init /\ [][Next]_vars

\* Every worker thread keeps being scheduled.
WorkerNext(w) ==
  \/ GetReady(w) \/ LockQ(w) \/ Pop(w) \/ Done(w)
  \/ \E r \in Reactions \cup {NULL} : Trigger(w, r)
  \/ InsertEnter(w) \/ InsertCommit(w)
  \/ WaitForWork(w) \/ Acquire(w) \/ TryAdvance(w) \/ LockMutex(w)
  \/ AdvanceTag(w) \/ Distribute(w) \/ NotifyLoad(w) \/ NotifyStore(w)

FairSpec == Spec /\ \A w \in Workers : WF_vars(WorkerNext(w))

\* Runs in which a worker may also report a reaction twice.
NextMisuse ==
  \/ Next
  \/ \E w \in Workers : DoneExtra(w)

SpecMisuse == Init /\ [][NextMisuse]_vars

\* ------------------------------------------------------------------ claims
\* Number of workers that got r from get_ready_reaction and have not yet
\* passed it to done_with_reaction.
HeldBy(r) == Cardinality({w \in Workers : held[w] = r})

\* Number of trigger calls that won the compare-and-swap on r and have not
\* yet completed the insert.
Inserting(r) == Cardinality({w \in Workers : trig[w] = r})

\* Worker w receives a reaction from get_ready_reaction in this step.
Dispatched(w) == held[w] = NULL /\ held'[w] # NULL

\* C1: no worker is handed a reaction of a higher level while a reaction of a
\* lower level that was dispatched in the same tag has not yet been reported
\* done: the reactions held by the workers never differ in level.
C1_LevelBarrier ==
  \A w1, w2 \in Workers :
    (held[w1] # NULL /\ held[w2] # NULL) => ~(LEVEL(held[w1]) < LEVEL(held[w2]))

\* C1 witness: a worker holds a level-1 reaction in a tag in which a level-0
\* reaction was dispatched before.
C1_Witness ==
  \E w \in Workers : \E r \in disp_in_tag :
    held[w] # NULL /\ LEVEL(held[w]) = 1 /\ LEVEL(r) = 0

\* C2: a reaction whose trigger won the compare-and-swap during tag T is
\* dispatched before the tag advances past T: a pending trigger always belongs
\* to the current tag, and none is pending when all workers have stopped.
C2_TriggeredRunsInItsTag ==
  /\ \A r \in Reactions : trig_tag[r] # NULL => trig_tag[r] = current_tag
  /\ (\A w \in Workers : pc[w] = "stopped") =>
       \A r \in Reactions : trig_tag[r] = NULL

\* C3 as stated: status is queued exactly when the reaction is in one queue slot.
C3_QueuedIffInOneQueue ==
  \A r \in Reactions : status[r] = "queued" <=> InQueues(r) = 1

\* C3 amended: status is queued exactly when the reaction is in one queue slot,
\* or popped and not yet reported done, or won by a trigger call that has not
\* yet completed its insert; never more than one of these at once.
C3_QueuedIffQueuedHeldOrInserting ==
  \A r \in Reactions :
    /\ InQueues(r) + HeldBy(r) + Inserting(r) <= 1
    /\ status[r] = "queued" <=> InQueues(r) + HeldBy(r) + Inserting(r) = 1

\* C3 witness: a popped reaction, in no queue, whose status is still queued.
C3_Witness ==
  \E w \in Workers :
    held[w] # NULL /\ status[held[w]] = "queued" /\ InQueues(held[w]) = 0

C5_DispatchedOncePerTag ==
  [][\A w \in Workers : Dispatched(w) => held'[w] \notin disp_in_tag]_vars

\* C6 as stated: successive pops from the executing queue within one level
\* never decrease in index.
C6_PopsAscending ==
  [][\A w \in Workers :
       (Dispatched(w) /\ last_pop # NULL) => last_pop <= held'[w]]_vars

\* C6 amended: successive pops from the executing queue within one level, with
\* no insert into that queue completed between them, never decrease in index.
C6_PopsAscendingBetweenInserts ==
  [][\A w \in Workers :
       (Dispatched(w) /\ last_pop # NULL /\ ~ins_since) =>
         last_pop <= held'[w]]_vars

\* C6 witness: a second reaction has been popped from the executing queue at
\* the same level with no insert in between.
C6_Witness ==
  \E w1, w2 \in Workers :
    /\ w1 # w2 /\ held[w1] # NULL /\ held[w2] # NULL
    /\ last_pop = held[w2] /\ held[w1] < held[w2] /\ ~ins_since

\* C7: the idle counter stays within 0..number_of_workers.
C7_IdleInRange == n_idle >= 0 /\ n_idle <= number_of_workers

\* C7 witness: after a tag advance notify_workers has lowered the counter from
\* number_of_workers: one worker runs a reaction while another is on the
\* semaphore.
C7_Witness ==
  /\ tag_completed /\ n_idle = number_of_workers - 1
  /\ \E w1, w2 \in Workers : pc[w1] = "run" /\ pc[w2] = "acquire"

\* C8: once signal_stop has run every worker eventually returns STOP; the
\* permits not yet taken equal the number of workers still on the semaphore,
\* and every other worker is at the loop test or has returned.
C8_AllWorkersStop ==
  /\ should_stop ~> (\A w \in Workers : pc[w] = "stopped")
  /\ [](should_stop =>
          /\ sem = Cardinality({w \in Workers : pc[w] = "acquire"})
          /\ \A w \in Workers : pc[w] \in {"acquire", "get", "stopped"})

\* C8 witness: all workers have returned STOP.
C8_Witness == should_stop /\ \A w \in Workers : pc[w] = "stopped"

\* C9: done_with_reaction turns queued into inactive, and on any other status
\* aborts and leaves the status as it is; the abort happens only in runs in
\* which a worker reports a reaction more than once.
C9_DoneOrAbort ==
  /\ [](aborted => misused)
  /\ [][\A w \in Workers :
          Done(w) =>
            IF status[held[w]] = "queued"
            THEN status' = [status EXCEPT ![held[w]] = "inactive"] /\ ~aborted'
            ELSE status' = status /\ aborted']_vars
  /\ [][\A w \in Workers :
          DoneExtra(w) =>
            IF status[held[w]] = "queued"
            THEN status' = [status EXCEPT ![held[w]] = "inactive"] /\ ~aborted'
            ELSE status' = status /\ aborted']_vars

\* C9 witness: the runtime has aborted on the second report of a reaction.
C9_Witness == aborted /\ misused

\* C10: a trigger call that is inside the insert into the queue executing_q
\* names holds the executing queue mutex.
C10_ExecInsertLocked ==
  \A w \in Workers :
    (pc[w] = "ins2" /\ LEVEL(trig[w]) = executing_q) => q_mutex = w

\* The workers that run a reaction of a level below l and are inside the
\* unlocked pqueue_insert of _lf_sched_insert_reaction on the queue of level l.
InsertingAbove(l) ==
  {w \in Workers : /\ pc[w] = "ins2"
                   /\ LEVEL(trig[w]) = l
                   /\ LEVEL(held[w]) < l}

\* C11: no two threads are ever inside an operation on the same priority
\* queue at the same time; in particular two workers that run reactions of
\* one level in parallel and each trigger a reaction of a higher level are
\* never inside their inserts into that level's queue together.
C11_NoConcurrentInserts ==
  \A l \in Levels : Cardinality(InsertingAbove(l)) <= 1

\* The workers inside _lf_sched_try_advance_tag_and_distribute.
Advancers ==
  {w \in Workers :
     pc[w] \in {"adv", "mlock", "advtag", "dist", "notify", "notify2"}}

\* C12: at most one worker is inside the advance-or-distribute procedure;
\* while one is, from its election until it has released the workers or
\* signalled the stop, every other worker is parked on the semaphore or has
\* incremented the idle counter and is about to park (no permit is
\* available), and no reaction is popped but not yet done.
C12_OneAdvancerOthersParked ==
  /\ Cardinality(Advancers) <= 1
  /\ Advancers # {} =>
       /\ \A w \in Workers \ Advancers : pc[w] = "acquire"
       /\ \A w \in Workers : held[w] = NULL /\ trig[w] = NULL
       /\ sem = 0

\* A worker was elected after a tag was executed and is about to release
\* workers for a level of a later tag.
C12_Witness ==
  \E w \in Workers : pc[w] = "notify2" /\ tag_completed /\ to_awake >= 1

\* The thread that holds the mutex worker w is blocked on in lf_mutex_lock
\* (NoThread when w is not blocked on a mutex).
WaitsFor(w) ==
  IF pc[w] = "lock" THEN q_mutex
  ELSE IF pc[w] = "ins" /\ NeedsLock(federated, LEVEL(trig[w]), next_level)
       THEN q_mutex
  ELSE IF pc[w] = "mlock" THEN mutex
  ELSE NoThread

\* C13: no thread acquires the global mutex while it holds the executing
\* queue mutex, no worker holds either mutex while it is blocked in the
\* semaphore acquire, and no threads wait for each other's mutexes (a
\* thread waiting for a mutex it holds itself included).
C13_LockOrder ==
  /\ \A w \in Workers : pc[w] = "mlock" => q_mutex # w
  /\ \A w \in Workers : pc[w] = "acquire" => q_mutex # w /\ mutex # w
  /\ \A w \in Workers : WaitsFor(w) # w
  /\ \A w1, w2 \in Workers :
       ~(w1 # w2 /\ WaitsFor(w1) = w2 /\ WaitsFor(w2) = w1)

\* A worker waits for the executing queue mutex while another worker holds
\* it inside a same-level insert.
C13_Witness ==
  \E w1, w2 \in Workers :
    /\ pc[w1] = "lock"
    /\ pc[w2] = "ins2"
    /\ q_mutex = w2
    /\ WaitsFor(w1) = w2

\* C14: a reaction r' that a worker triggered while executing a reaction of
\* the level of r' is returned by get_ready_reaction before the advancer
\* moves the executing queue or advances the tag: as long as r' is pending
\* (triggered, not yet returned) the executing queue is the queue of its
\* level, the tag is the tag of the trigger and no worker is inside the
\* advance-or-distribute procedure; no step changes the executing queue or
\* the tag while such an r' is pending.
C14_SameLevelServedBeforeAdvance ==
  /\ [](\A r \in trig_same : /\ executing_q = LEVEL(r)
                             /\ trig_tag[r] = current_tag
                             /\ Advancers = {})
  /\ [][(executing_q' # executing_q \/ current_tag' # current_tag)
          => trig_same = {}]_vars

\* A same-level triggered reaction is in the executing queue after a tag advance
\* and a worker is about to pop from that queue.
C14_Witness ==
  \E r \in trig_same :
    /\ Occurrences(vector_of_reaction_qs[executing_q], r) = 1
    /\ tag_completed
    /\ \E w \in Workers : pc[w] = "pop"

\* Every queue of the reaction queue array is empty.
AllEmpty == \A l \in Levels : vector_of_reaction_qs[l] = <<>>

\* C15: while every queue of the reaction queue array is empty (an empty
\* tag), a step of the advancer in its scan releases no permit and wakes no
\* worker; the scan ends only with next_level = MAX_REACTION_LEVEL + 1, and
\* from there the advancer goes on to call _lf_sched_advance_tag_locked
\* again, which it does only with all levels scanned.  A worker leaves the
\* advance-or-distribute procedure only with the stop flag set or with a
\* non-empty executing queue.
C15_EmptyTagAdvancesAgain ==
  [][\A w \in Workers :
       /\ (pc[w] \in {"adv", "dist"} /\ AllEmpty) =>
            /\ sem' = sem
            /\ n_idle' = n_idle
            /\ pc'[w] \in {"adv", "dist", "mlock"}
            /\ (pc[w] = "dist" /\ pc'[w] = "adv") =>
                 next_level = MAX_REACTION_LEVEL + 1
            /\ (pc[w] = "adv" /\ next_level = MAX_REACTION_LEVEL + 1) =>
                 pc'[w] = "mlock"
            /\ (pc[w] = "adv" /\ pc'[w] = "mlock") =>
                 next_level = MAX_REACTION_LEVEL + 1
       /\ (w \in Advancers /\ w \notin Advancers') =>
            \/ should_stop'
            \/ vector_of_reaction_qs'[executing_q'] # <<>>
    ]_vars

\* The advancer is inside _lf_sched_advance_tag_locked again after a tag in
\* which no reaction was dispatched and nothing is queued.
C15_Witness ==
  \E w \in Workers :
    /\ pc[w] = "advtag"
    /\ tag_completed
    /\ current_tag < stop_tag
    /\ disp_in_tag = {}
    /\ AllEmpty
    /\ sem = 0

\* C16: _lf_sched_advance_tag_locked runs with the global mutex held.  Its
\* first invocation does not call logical_tag_complete, does not stop
\* whatever the tag is, and calls _lf_next_locked.  Every later invocation
\* calls logical_tag_complete(current_tag), and it returns stop without
\* calling _lf_next_locked exactly when current_tag >= stop_tag; otherwise it
\* calls _lf_next_locked.  So the stop flag is set, and a worker has got
\* NULL, only with current_tag >= stop_tag.
C16_AdvanceTagLocked ==
  /\ [](\A w \in Workers : pc[w] = "advtag" => mutex = w)
  /\ [](should_stop => current_tag >= stop_tag)
  /\ [](\A w \in Workers : pc[w] = "stopped" =>
          should_stop /\ current_tag >= stop_tag)
  /\ [][\A w \in Workers : (pc[w] = "advtag" /\ pc'[w] # "advtag") =>
          IF ~adv_invoked
          THEN /\ ltc_last' = ltc_last
               /\ ~should_stop'
               /\ current_tag' = lf_next_locked_tag(current_tag)
          ELSE /\ ltc_last' = current_tag
               /\ (should_stop' /\ current_tag' = current_tag)
                    <=> current_tag >= stop_tag
               /\ current_tag < stop_tag =>
                    /\ ~should_stop'
                    /\ current_tag' = lf_next_locked_tag(current_tag)
       ]_vars

\* Execution started at the stop tag, the first invocation moved on to the
\* next tag, and a later invocation reported that tag complete and stopped.
C16_Witness ==
  /\ should_stop
  /\ adv_invoked
  /\ ltc_last = current_tag
  /\ current_tag = lf_next_locked_tag(stop_tag)

\* C17: whenever the executing queue is non-empty, next_level - 1 is the
\* level of every reaction in it, the state right after lf_sched_init and
\* the start-up triggers included.
C17_NextLevelIsExecutingPlusOne ==
  \A i \in 1..Len(vector_of_reaction_qs[executing_q]) :
    next_level - 1 = LEVEL(vector_of_reaction_qs[executing_q][i])

\* The workers that have incremented the idle counter and are on (or about
\* to call) lf_semaphore_acquire.
Parked == {w \in Workers : pc[w] = "acquire"}

C19_NextLevelRangeAndOrder ==
  /\ [](next_level \in 0..(MAX_REACTION_LEVEL + 1))
  /\ [][next_level' # next_level =>
          \/ next_level' > next_level
          \/ /\ next_level = MAX_REACTION_LEVEL + 1
             /\ next_level' = 0
             /\ \E w \in Workers : pc[w] = "adv" /\ pc'[w] = "mlock"]_vars
  /\ [][\A w \in Workers : (pc[w] # "mlock" /\ pc'[w] = "mlock") =>
          next_level = MAX_REACTION_LEVEL + 1 /\ next_level' = 0]_vars
  /\ [][executing_q' # executing_q =>
          /\ executing_q' = next_level
          /\ next_level' = next_level + 1
          /\ executing_q' < executing_q => next_level = 0 /\ tag_completed
       ]_vars

\* The advancer has reset next_level after a tag that went through all
\* levels, and is about to advance the tag again.
C19_Witness ==
  \E w \in Workers :
    /\ pc[w] = "mlock"
    /\ next_level = 0
    /\ tag_completed
    /\ executing_q = MAX_REACTION_LEVEL

\* C20: once lf_sched_free has run, every queue of the reaction queue array
\* was passed to pqueue_free exactly once, and the semaphore and the
\* executing queue mutex were destroyed.
C20_FreeReleasesAll ==
  freed.done =>
    /\ \A l \in Levels : freed.queues[l] = 1
    /\ freed.semaphore
    /\ freed.executing_q_mutex

\* C21: whenever no worker is inside the advance-or-distribute procedure,
\* the idle counter equals the number of workers that have incremented it in
\* _lf_sched_wait_for_work and not yet returned, minus the permit count of
\* the semaphore; so the permit count never exceeds the number of those
\* workers, and while the stop flag is not set the workers are never all
\* blocked on the semaphore.
C21_WakeUpAccounting ==
  /\ Advancers = {} => n_idle = Cardinality(Parked) - sem
  /\ sem <= Cardinality(Parked)
  /\ ~should_stop => ~(Parked = Workers /\ sem = 0)

\* C21 (amended): the equation of C21 holds whenever no worker is inside the
\* advance-or-distribute procedure and the stop flag is not set; the permit
\* count never exceeds the number of waiting workers in any state, after the
\* stop included, and while the stop flag is not set the workers are never
\* all blocked on the semaphore.
C21_WakeUpAccountingBeforeStop ==
  /\ (Advancers = {} /\ ~should_stop) => n_idle = Cardinality(Parked) - sem
  /\ should_stop => n_idle = number_of_workers
  /\ sem <= Cardinality(Parked)
  /\ sem >= 0
  /\ ~should_stop => ~(Parked = Workers /\ sem = 0)

\* A permit is out for a parked worker after notify_workers, before the
\* stop: the idle counter is the one waiting worker minus the one permit.
C21_Witness ==
  /\ ~should_stop
  /\ Advancers = {}
  /\ sem = 1
  /\ Cardinality(Parked) = number_of_workers - 1
  /\ n_idle = Cardinality(Parked) - sem

\* C22: no reaction is carried across a tag boundary: whenever the advancer
\* is in _lf_sched_advance_tag_locked, about to call _lf_next_locked or to
\* have the stop signalled, every queue of the reaction queue array is empty
\* and the status of every reaction is inactive.
C22_NothingCarriedAcrossTags ==
  \A w \in Workers : pc[w] = "advtag" =>
    /\ AllEmpty
    /\ \A r \in Reactions : status[r] = "inactive"

\* C23: a reaction is never held by two workers at once.  While a worker
\* holds r (between the get_ready_reaction that returned r and its
\* done_with_reaction), the status of r is queued, r is in no queue and in no
\* insert; no trigger call on r wins in that interval, and no
\* get_ready_reaction of another worker returns r.
C23_HeldByOneWorker ==
  /\ [](\A r \in Reactions : HeldBy(r) <= 1)
  /\ [](\A w \in Workers : held[w] # NULL =>
          /\ status[held[w]] = "queued"
          /\ InQueues(held[w]) = 0
          /\ Inserting(held[w]) = 0)
  /\ [][\A w \in Workers : held[w] # NULL =>
          \A w2 \in Workers :
            /\ ~(trig'[w2] = held[w] /\ trig[w2] # held[w])
            /\ w2 # w => ~(held'[w2] = held[w] /\ held[w2] # held[w])
       ]_vars

\* A worker holds a reaction and executes it while another worker, holding a
\* reaction of its own, is executing too (and may call trigger on the first
\* one), and a further reaction of that level is still queued.
C23_Witness ==
  \E w1, w2 \in Workers :
    /\ w1 # w2
    /\ pc[w1] = "run" /\ held[w1] # NULL
    /\ pc[w2] = "run" /\ held[w2] # NULL
    /\ tag_completed
    /\ \E r \in Reactions : status[r] = "inactive"

====
